---- MODULE Spec2Model ----
(***************************************************************************)
(* Habit tracker: the completion-log / streak engine.                      *)
(*                                                                         *)
(* The database (habits, habit_logs, streaks) is PostgreSQL at READ        *)
(* COMMITTED.  logCompletion runs its statements inside BEGIN..COMMIT on   *)
(* one pooled client; updateStreak runs each statement in autocommit mode; *)
(* recalculateStreaks starts one updateStreak per habit and awaits them    *)
(* with Promise.all; generateHabitReport is recalculateStreaks followed by *)
(* two aggregation queries.                                                *)
(*                                                                         *)
(* Every awaited statement is one step.  Spec serves the requests one      *)
(* after another, SpecConc interleaves them statement by statement.        *)
(* SpecScore, SpecReport, SpecTrend and SpecInject follow the consistency  *)
(* score and the report queries, SpecReadback the created_at order of      *)
(* interleaved logCompletion requests, SpecPool the clients of the pool.   *)
(***************************************************************************)
EXTENDS Integers, FiniteSets, Sequences, TLC

\* ---------------------------------------------------------------- bounds
MaxDay == 4        \* calendar days are 1..MaxDay
MaxLogs == 3       \* completion logs stored or being written, requests served in turn
MaxConcLogs == 2   \* the same, requests interleaved
MaxConcDay == 2    \* interleaved requests log the days 1..MaxConcDay
MaxScoreDay == 33  \* the end date of a consistency-score request is in 1..MaxScoreDay
MaxReportLogs == 2 \* completion logs stored or being written when reports are requested
MaxToday == 35     \* a report is requested on a day in MaxDay..MaxToday
PoolSize == 3      \* clients of the connection pool, and calls that contend for them

Days == 1..MaxDay
Users == {"u1", "u2"}
HabitIds == {"h1", "h2"}
Clients == {"c1", "c2"}
Callers == 1..PoolSize

VARIABLES
    habits,     \* committed table habits: habit_id -> [owner, name, frequency, target, start]
    logs,       \* committed table habit_logs: habit_id -> day -> [rows, total]: the number
                \* of rows of that date and the sum of their completed_count
    streaks,    \* committed table streaks: habit_id -> [current, longest, last] (unique on habit_id)
    lc,         \* logCompletion requests: client -> locals
    ut,         \* updateStreak calls of the running batch: habit_id -> locals
    batch,      \* the running updateStreak / recalculateStreaks / generateHabitReport call
    pool        \* the connection pool: its free clients and the recalculateStreaks
                \* calls that contend for them

vars == <<habits, logs, streaks, lc, ut, batch, pool>>

\* ------------------------------------------------------- pure functions

Max2(a, b) == IF a >= b THEN a ELSE b

SetMax(S) == CHOOSE x \in S : \A y \in S : y <= x

\* The server's zone is ahead of UTC: local midnight falls on the previous UTC day.
ServerAheadOfUtc == TRUE

\* new Date(row.date).toISOString().split('T')[0]: the driver yields local
\* midnight of the stored day; the key is that instant's UTC calendar day.
IsoKey(d) == IF ServerAheadOfUtc THEN d - 1 ELSE d

\* currentDate.setDate(currentDate.getDate() - 1): previous local midnight.
PrevDay(d) == d - 1

\* logs = new Set(); rows.forEach(... logs.add(dateStr) ...); rows is the set of days read
KeySetLatestOnly(rows) == {IsoKey(SetMax(rows))}
KeySet(rows) == {IsoKey(d) : d \in rows}

\* let lastDate = null; if (!lastDate || date > lastDate) lastDate = date
\* (null, and the epoch new Date(null) the walk would start from, are day 0)
LastDate(rows) == IF rows = {} THEN 0 ELSE SetMax(rows)

\* while (true) { if (!logs.has(dateStr)) break; currentStreak++; setDate(-1) }
RECURSIVE WalkBack(_, _)
WalkBack(keys, d) ==
    IF IsoKey(d) \in keys THEN 1 + WalkBack(keys, PrevDay(d)) ELSE 0

\* updateStreak: lastDate, currentStreak and longestStreak from the rows it read
UsLastDateMin(rows) == CHOOSE x \in rows : \A y \in rows : x <= y
UsLastDate(rows) == LastDate(rows)
UsCurrentStreak(rows) == WalkBack(KeySet(rows), UsLastDate(rows))
UsLongestStreak(cur, existingLongest) == Max2(cur, existingLongest)

\* logCompletion: the same computation, written out again in the controller
LcLastDateMin(rows) == CHOOSE x \in rows : \A y \in rows : x <= y
LcLastDate(rows) == LastDate(rows)
LcCurrentStreakNoWalk(rows) == 1
LcCurrentStreak(rows) == WalkBack(KeySet(rows), LcLastDate(rows))
LcLongestNoMax(cur, existingLongest) == cur
LcLongestStored(cur, existingLongest) == existingLongest
LcLongestStreak(cur, existingLongest) == Max2(cur, existingLongest)

\* the calendar of the SQL date arithmetic: weeks of 7 days, months of 30 days
DaysPerWeek == 7
DaysPerMonth == 30

MonthOf(d) == (d - 1) \div DaysPerMonth
DayOfMonth(d) == ((d - 1) % DaysPerMonth) + 1

\* AGE(later, earlier): whole months, then the days that remain; the day field
\* borrows a month when it would be negative
AgeForward(later, earlier) ==
    LET m == MonthOf(later) - MonthOf(earlier)
        d == DayOfMonth(later) - DayOfMonth(earlier)
    IN  IF d < 0 THEN [months |-> m - 1, days |-> d + DaysPerMonth]
        ELSE [months |-> m, days |-> d]

\* AGE(a, b) with a before b is the negated interval
Age(a, b) ==
    IF a >= b THEN AgeForward(a, b)
    ELSE [months |-> 0 - AgeForward(b, a).months, days |-> 0 - AgeForward(b, a).days]

\* CEIL(n / k.0) for k > 0
CeilDiv(n, k) == 0 - ((0 - n) \div k)

\* ------------------------------------------------------------ the tables

\* created is the latest created_at of the rows of that date (0: not followed)
NoRows == [rows |-> 0, total |-> 0, created |-> 0]

NoLogs == [h \in HabitIds |-> [d \in Days |-> NoRows]]

\* SELECT date FROM habit_logs WHERE habit_id = $1: the days of the rows
LogDates(tbl, h) == {d \in Days : tbl[h][d].rows > 0}

RECURSIVE SumOver(_, _)
SumOver(f, S) ==
    IF S = {} THEN 0 ELSE LET x == CHOOSE y \in S : TRUE IN f[x] + SumOver(f, S \ {x})

\* number of rows in habit_logs
LogCount ==
    SumOver([h \in HabitIds |-> SumOver([d \in Days |-> logs[h][d].rows], Days)], HabitIds)

\* INSERT INTO habit_logs (log_id, habit_id, date, completed_count) VALUES (.., $1, $2, $3);
\* created_at defaults to CURRENT_TIMESTAMP, the start time of the inserting transaction
AddLog(tbl, h, d, count, stamp) ==
    [tbl EXCEPT ![h][d] = [rows |-> @.rows + 1, total |-> @.total + count,
                           created |-> Max2(@.created, stamp)]]

\* SELECT * FROM habit_logs WHERE habit_id = $1 ORDER BY created_at DESC LIMIT 1:
\* the created_at of the row returned
LatestCreated(tbl, h) == SetMax({tbl[h][d].created : d \in Days})

HabitsOf(u) == {h \in DOMAIN habits : habits[h].owner = u}

\* the values a request body gives for a habit: name, frequency, targetCount, startDate
HabitNames == {"A", "B"}
Frequencies == {"daily", "weekly", "monthly", "yearly"}
TargetCounts == {1, 2}

HabitRow(u, name, frequency, target) ==
    [owner |-> u, name |-> name, frequency |-> frequency, target |-> target, start |-> 1,
     category |-> "none"]

\* req.query.categoryId: absent (null), or a string.  The string is pasted
\* between quotes into the query text: what stands before its first quote is
\* read as the literal, and ' OR '1'='1 after it as a further condition.
NoCategory == [given |-> FALSE, literal |-> "", orTrue |-> FALSE]
CategoryOf(literal, orTrue) == [given |-> TRUE, literal |-> literal, orTrue |-> orTrue]
CategoryNames == {"cat1", "cat2"}
CategoryIds == {NoCategory} \cup {CategoryOf(l, o) : l \in CategoryNames, o \in BOOLEAN}

\* req.body.count: a number, or absent (undefined, sent to the database as NULL)
CountOf(n) == [given |-> TRUE, value |-> n]
NoCount == [given |-> FALSE, value |-> 0]

StreakRow(cur, longest, last) == [current |-> cur, longest |-> longest, last |-> last]

PutStreak(tbl, h, row) ==
    [x \in DOMAIN tbl \cup {h} |-> IF x = h THEN row ELSE tbl[x]]

\* ------------------------------------------------------------ processes

LcIdle == [pc |-> "idle", user |-> "u1", habit |-> "h1", date |-> 0, count |-> NoCount,
           stamp |-> 0, returned |-> 0,
           tx |-> FALSE, txLog |-> FALSE, txStreak |-> "none",
           cur |-> 0, last |-> 0, longest |-> 0, found |-> FALSE,
           status |-> 0, err |-> "none",
           logVisible |-> FALSE, streakVisible |-> FALSE,
           preLogs |-> <<>>, preStreaks |-> <<>>]

UtIdle == [pc |-> "idle", cur |-> 0, last |-> 0, longest |-> 0, found |-> FALSE,
           returned |-> FALSE, err |-> "none"]

\* a FLOAT result, kept as the fraction num / den
NoScore == [num |-> 0, den |-> 1]

\* summaryResults.rows[0] || {}
NoSummary == [total_habits |-> 0, avg_current_streak |-> NoScore, max_streak |-> 0]

BatchIdle == [pc |-> "idle", mode |-> "none", user |-> "u1", result |-> "none",
              habit |-> "h1", startDate |-> 0, endDate |-> 0, score |-> NoScore,
              categoryId |-> NoCategory,
              today |-> 0, rows |-> <<>>, summary |-> NoSummary,
              atRecalcEnd |-> <<>>, atHabitsQuery |-> <<>>, atSummaryQuery |-> <<>>]

\* a recalculateStreaks call and the updateStreak calls it has started
RcIdle == [pc |-> "idle", us |-> <<>>]

\* new Pool({ connectionString, ssl }): every client free, no call running
PoolIdle == [free |-> PoolSize, rc |-> [k \in Callers |-> RcIdle]]

Quiescent ==
    /\ \A c \in Clients : lc[c].pc = "idle"
    /\ \A h \in HabitIds : ut[h].pc = "idle"
    /\ batch.pc = "idle"

\* Steps that touch only the request's own locals (the habit lookup, whose
\* table no request in flight writes; the insert held by the open transaction;
\* the release of the client) commute with every step of the other requests:
\* they are scheduled first, the statements on shared rows wait for them.
LocalStepPending ==
    \/ \E c \in Clients : lc[c].pc \in {"lookup", "insert", "done"}
    \/ batch.pc = "selHabits"

Init ==
    /\ habits = <<>>
    /\ logs = NoLogs
    /\ streaks = <<>>
    /\ lc = [c \in Clients |-> LcIdle]
    /\ ut = [h \in HabitIds |-> UtIdle]
    /\ batch = BatchIdle
    /\ pool = PoolIdle

\* ---------------------------------------------------- habit CRUD (prisma)

\* createHabit: prisma.habit.create, one autocommitted INSERT with a fresh uuid
CreateHabit(u, h, name, frequency, target) ==
    /\ Quiescent
    /\ h \notin DOMAIN habits
    /\ h = "h2" => "h1" \in DOMAIN habits
    /\ habits' = [x \in DOMAIN habits \cup {h} |->
                      IF x = h THEN HabitRow(u, name, frequency, target) ELSE habits[x]]
    /\ UNCHANGED <<logs, streaks, lc, ut, batch, pool>>

\* deleteHabit: prisma.habit.delete where id and userId; habit_logs and
\* streaks rows go with it (ON DELETE CASCADE)
DeleteHabit(u, h) ==
    /\ Quiescent
    /\ h \in DOMAIN habits /\ habits[h].owner = u
    /\ habits' = [x \in DOMAIN habits \ {h} |-> habits[x]]
    /\ logs' = [logs EXCEPT ![h] = [d \in Days |-> NoRows]]
    /\ streaks' = [x \in DOMAIN streaks \ {h} |-> streaks[x]]
    /\ UNCHANGED <<lc, ut, batch, pool>>

\* ------------------------------------------------- logCompletion, by step

\* the requests in flight
Active == {c \in Clients : lc[c].pc # "idle"}

\* what the request's own statements see of habit_logs: committed rows and its own insert
LcVisibleLogs(c) ==
    IF lc[c].txLog THEN AddLog(logs, lc[c].habit, lc[c].date, lc[c].count.value, lc[c].stamp)
    ELSE logs

\* another open transaction holds an uncommitted write of the streaks row / key of h
Locked(h, me) ==
    \E c \in Clients \ {me} : lc[c].tx /\ lc[c].txStreak # "none" /\ lc[c].habit = h

\* the row a request or call writes reaches the table: an INSERT adds it, an
\* UPDATE ... WHERE habit_id = $4 changes the row if there is one
StreakWriteLands(kind, h) == kind = "insert" \/ (kind = "update" /\ h \in DOMAIN streaks)

\* the tables once the request's transaction is committed
LogsAfterCommit(c) == LcVisibleLogs(c)

StreaksAfterCommit(c) ==
    IF StreakWriteLands(lc[c].txStreak, lc[c].habit)
    THEN PutStreak(streaks, lc[c].habit, StreakRow(lc[c].cur, lc[c].longest, lc[c].last))
    ELSE streaks

\* await client.query('BEGIN'): the statements that follow form one transaction
BeginTxnOmitted == FALSE
BeginTxn == TRUE

\* await client.query('ROLLBACK'): the open transaction's writes are discarded
RollbackLogsKept(c) == LogsAfterCommit(c)
RollbackLogs(c) == logs
RollbackStreaks(c) == streaks

\* const client = await pool.connect(); await client.query('BEGIN'), the
\* transaction starting at time stamp
StartLogAt(c, u, h, d, count, cap, sequential, stamp) ==
    /\ sequential => Quiescent
    /\ lc[c].pc = "idle"
    /\ ~LocalStepPending
    /\ LogCount + Cardinality(Active) < cap
    /\ lc' = [lc EXCEPT ![c] = [LcIdle EXCEPT !.pc = "lookup", !.user = u, !.habit = h,
                                  !.date = d, !.count = count, !.tx = BeginTxn,
                                  !.stamp = stamp,
                                  !.preLogs = IF sequential THEN logs ELSE <<>>,
                                  !.preStreaks = IF sequential THEN streaks ELSE <<>>]]
    /\ UNCHANGED <<habits, logs, streaks, ut, batch, pool>>

\* the same, the start time of the transaction not followed
StartLog(c, u, h, d, count, cap, sequential) ==
    StartLogAt(c, u, h, d, count, cap, sequential, 0)

\* SELECT * FROM habits WHERE habit_id = $1 AND user_id = $2 returns a row
LcHabitExists(c) == lc[c].habit \in DOMAIN habits
LcHabitFound(c) == lc[c].habit \in HabitsOf(lc[c].user)

\* the habit lookup; habitResult.rows.length === 0: ROLLBACK, 404
LcLookup(c) ==
    /\ lc[c].pc = "lookup"
    /\ IF LcHabitFound(c)
       THEN /\ lc' = [lc EXCEPT ![c].pc = "insert"]
            /\ UNCHANGED <<logs, streaks>>
       ELSE /\ lc' = [lc EXCEPT ![c].pc = "done", ![c].status = 404, ![c].tx = FALSE,
                                ![c].txLog = FALSE, ![c].txStreak = "none",
                                ![c].user = "u1", ![c].habit = "h1", ![c].date = 0,
                                ![c].count = NoCount]
            /\ logs' = RollbackLogs(c)
            /\ streaks' = RollbackStreaks(c)
    /\ UNCHANGED <<habits, ut, batch, pool>>

\* catch (error): ROLLBACK, 400
LcCatch(c, err) ==
    /\ lc' = [lc EXCEPT ![c].pc = "done", ![c].status = 400, ![c].err = err,
                        ![c].tx = FALSE, ![c].txLog = FALSE, ![c].txStreak = "none",
                        ![c].cur = 0, ![c].last = 0, ![c].longest = 0, ![c].found = FALSE,
                        ![c].user = "u1", ![c].habit = "h1", ![c].date = 0,
                        ![c].count = NoCount,
                        ![c].logVisible = IF lc[c].tx THEN RollbackLogs(c) # logs ELSE @]
    /\ logs' = (IF lc[c].tx THEN RollbackLogs(c) ELSE logs)
    /\ streaks' = (IF lc[c].tx THEN RollbackStreaks(c) ELSE streaks)

\* INSERT INTO habit_logs: held by the open transaction, or committed at once
\* without one.  completed_count is NOT NULL: an absent count is rejected by
\* the database and the request lands in the catch block.
LcInsert(c) ==
    /\ lc[c].pc = "insert"
    /\ IF ~lc[c].count.given
       THEN LcCatch(c, "notNull")
       ELSE IF lc[c].tx
       THEN /\ lc' = [lc EXCEPT ![c].pc = "readLogs", ![c].txLog = TRUE]
            /\ UNCHANGED <<logs, streaks>>
       ELSE /\ lc' = [lc EXCEPT ![c].pc = "readLogs", ![c].logVisible = TRUE]
            /\ logs' = AddLog(logs, lc[c].habit, lc[c].date, lc[c].count.value, lc[c].stamp)
            /\ UNCHANGED streaks
    /\ UNCHANGED <<habits, ut, batch, pool>>

\* SELECT date FROM habit_logs WHERE habit_id = $1 ORDER BY date, then the walk
LcReadLogs(c) ==
    /\ lc[c].pc = "readLogs"
    /\ ~LocalStepPending
    /\ LET rows == LogDates(LcVisibleLogs(c), lc[c].habit)
       IN  IF rows = {}
           THEN lc' = [lc EXCEPT ![c].pc = "commit"]
           ELSE lc' = [lc EXCEPT ![c].pc = "readStreak",
                                 ![c].last = LcLastDate(rows),
                                 ![c].cur = LcCurrentStreak(rows)]
    /\ UNCHANGED <<habits, logs, streaks, ut, batch, pool>>

\* SELECT * FROM streaks WHERE habit_id = $1; longestStreak = Math.max(...)
LcReadStreak(c) ==
    /\ lc[c].pc = "readStreak"
    /\ ~LocalStepPending
    /\ LET h == lc[c].habit
           found == h \in DOMAIN streaks
           existingLongest == IF found THEN streaks[h].longest ELSE 0
       IN  lc' = [lc EXCEPT ![c].pc = "write", ![c].found = found,
                            ![c].longest = LcLongestStreak(lc[c].cur, existingLongest)]
    /\ UNCHANGED <<habits, logs, streaks, ut, batch, pool>>

\* INSERT INTO streaks (no row was found) or UPDATE streaks ... WHERE habit_id.
\* The statement waits for an open transaction that wrote the same row or key;
\* an insert that meets a committed row violates streaks_habit_id_key.
LcWrite(c) ==
    /\ lc[c].pc = "write"
    /\ ~LocalStepPending
    /\ ~Locked(lc[c].habit, c)
    /\ LET h == lc[c].habit
           kind == IF lc[c].found THEN "update" ELSE "insert"
       IN  IF kind = "insert" /\ h \in DOMAIN streaks
           THEN LcCatch(c, "duplicate")
           ELSE IF lc[c].tx
           THEN /\ lc' = [lc EXCEPT ![c].pc = "commit", ![c].txStreak = kind]
                /\ UNCHANGED <<logs, streaks>>
           ELSE /\ lc' = [lc EXCEPT ![c].pc = "commit",
                                    ![c].streakVisible = StreakWriteLands(kind, h)]
                /\ UNCHANGED logs
                /\ streaks' = (IF StreakWriteLands(kind, h)
                               THEN PutStreak(streaks, h, StreakRow(lc[c].cur, lc[c].longest, lc[c].last))
                               ELSE streaks)
    /\ UNCHANGED <<habits, ut, batch, pool>>

\* await client.query('COMMIT')
LcCommit(c) ==
    /\ lc[c].pc = "commit"
    /\ ~LocalStepPending
    /\ logs' = (IF lc[c].tx THEN LogsAfterCommit(c) ELSE logs)
    /\ streaks' = (IF lc[c].tx THEN StreaksAfterCommit(c) ELSE streaks)
    /\ lc' = [lc EXCEPT ![c].pc = "readback", ![c].tx = FALSE, ![c].txLog = FALSE,
                        ![c].txStreak = "none",
                        ![c].logVisible = IF lc[c].tx THEN lc[c].txLog ELSE @,
                        ![c].streakVisible =
                            IF lc[c].tx THEN StreakWriteLands(lc[c].txStreak, lc[c].habit) ELSE @]
    /\ UNCHANGED <<habits, ut, batch, pool>>

\* SELECT * FROM habit_logs WHERE habit_id = $1 ORDER BY created_at DESC LIMIT 1; 201
LcReadback(c) ==
    /\ lc[c].pc = "readback"
    /\ ~LocalStepPending
    /\ lc' = [lc EXCEPT ![c].pc = "done", ![c].status = 201,
                        ![c].returned = LatestCreated(logs, lc[c].habit),
                        ![c].cur = 0, ![c].last = 0, ![c].longest = 0, ![c].found = FALSE,
                        ![c].user = "u1", ![c].habit = "h1", ![c].date = 0,
                        ![c].count = NoCount]
    /\ UNCHANGED <<habits, logs, streaks, ut, batch, pool>>

\* a statement of the request is rejected by the data store
LcFail(c) ==
    /\ lc[c].pc \in {"lookup", "insert", "readLogs", "readStreak", "write", "commit", "readback"}
    /\ lc[c].pc \notin {"lookup", "insert"} => ~LocalStepPending
    /\ LcCatch(c, IF lc[c].pc = "readback" THEN "afterCommit" ELSE "inTx")
    /\ UNCHANGED <<habits, ut, batch, pool>>

\* finally { client.release() }: the response is out, the client returns to the pool
LcFinish(c) ==
    /\ lc[c].pc = "done"
    /\ lc' = [lc EXCEPT ![c] = LcIdle]
    /\ UNCHANGED <<habits, logs, streaks, ut, batch, pool>>

\* ------------------------------------------------- updateStreak, by step

UtTerminal(h) == ut[h].pc \in {"idle", "done", "failed"}

\* if (logsResult.rows.length === 0) return
UtNoLogsIgnored(rows) == FALSE
UtNoLogs(rows) == rows = {}

\* SELECT date FROM habit_logs WHERE habit_id = $1 ORDER BY date; no rows:
\* return (no value, nothing written)
UtReadLogs(h) ==
    /\ ut[h].pc = "readLogs"
    /\ ~LocalStepPending
    /\ LET rows == LogDates(logs, h)
       IN  IF UtNoLogs(rows)
           THEN ut' = [ut EXCEPT ![h].pc = "done"]
           ELSE ut' = [ut EXCEPT ![h].pc = "readStreak",
                                 ![h].last = UsLastDate(rows),
                                 ![h].cur = UsCurrentStreak(rows)]
    /\ UNCHANGED <<habits, logs, streaks, lc, batch, pool>>

\* SELECT * FROM streaks WHERE habit_id = $1; longestStreak = Math.max(...)
UtReadStreak(h) ==
    /\ ut[h].pc = "readStreak"
    /\ ~LocalStepPending
    /\ LET found == h \in DOMAIN streaks
           existingLongest == IF found THEN streaks[h].longest ELSE 0
       IN  ut' = [ut EXCEPT ![h].pc = "write", ![h].found = found,
                            ![h].longest = UsLongestStreak(ut[h].cur, existingLongest)]
    /\ UNCHANGED <<habits, logs, streaks, lc, batch, pool>>

\* INSERT INTO streaks or UPDATE streaks, autocommitted; return { currentStreak,
\* longestStreak, lastLoggedDate }.  A duplicate insert throws.
UtWrite(h) ==
    /\ ut[h].pc = "write"
    /\ ~LocalStepPending
    /\ ~Locked(h, "none")
    /\ LET kind == IF ut[h].found THEN "update" ELSE "insert"
       IN  IF kind = "insert" /\ h \in DOMAIN streaks
           THEN /\ ut' = [ut EXCEPT ![h].pc = "failed", ![h].err = "duplicate"]
                /\ UNCHANGED streaks
           ELSE /\ ut' = [ut EXCEPT ![h].pc = "done", ![h].returned = TRUE]
                /\ streaks' = (IF StreakWriteLands(kind, h)
                               THEN PutStreak(streaks, h, StreakRow(ut[h].cur, ut[h].longest, ut[h].last))
                               ELSE streaks)
    /\ UNCHANGED <<habits, logs, lc, batch, pool>>

\* a statement of updateStreak is rejected by the data store: catch, log, rethrow
UtFail(h) ==
    /\ ut[h].pc \in {"readLogs", "readStreak", "write"}
    /\ ~LocalStepPending
    /\ ut' = [ut EXCEPT ![h].pc = "failed", ![h].err = "db"]
    /\ UNCHANGED <<habits, logs, streaks, lc, batch, pool>>

\* ------------------------- recalculateStreaks and generateHabitReport

\* a direct call of the exported updateStreak(habitId)
StartUpdate(h) ==
    /\ Quiescent
    /\ batch.pc = "idle" /\ \A x \in HabitIds : ut[x].pc = "idle"
    /\ batch' = [BatchIdle EXCEPT !.pc = "running", !.mode = "update"]
    /\ ut' = [ut EXCEPT ![h].pc = "readLogs"]
    /\ UNCHANGED <<habits, logs, streaks, lc, pool>>

\* recalculateStreaks(userId), called directly or as the first statement of
\* generateHabitReport(userId, startDate, endDate), on the day today
StartRecalcWith(u, mode, startDate, endDate, today, sequential, categoryId) ==
    /\ sequential => Quiescent
    /\ ~LocalStepPending
    /\ batch.pc = "idle" /\ \A x \in HabitIds : ut[x].pc = "idle"
    /\ batch' = [BatchIdle EXCEPT !.pc = "selHabits", !.mode = mode, !.user = u,
                                  !.startDate = startDate, !.endDate = endDate, !.today = today,
                                  !.categoryId = categoryId]
    /\ UNCHANGED <<habits, logs, streaks, lc, ut, pool>>

\* the same without a categoryId (categoryId = null)
StartRecalc(u, mode, startDate, endDate, today, sequential) ==
    StartRecalcWith(u, mode, startDate, endDate, today, sequential, NoCategory)

\* SELECT habit_id FROM habits WHERE user_id = $1; rows.map(habit => updateStreak(...))
BatchSelHabits ==
    /\ batch.pc = "selHabits"
    /\ batch' = [batch EXCEPT !.pc = "running"]
    /\ ut' = [h \in HabitIds |-> IF h \in HabitsOf(batch.user)
                                 THEN [UtIdle EXCEPT !.pc = "readLogs"] ELSE ut[h]]
    /\ UNCHANGED <<habits, logs, streaks, lc, pool>>

\* the habit_logs rows of the user's habits, as an aggregation statement reads them
LogsOfUser(u) == [h \in HabitsOf(u) |-> logs[h]]

\* ------------------------------------------------------- the report queries

\* WHERE h.user_id = $1 ${categoryFilter}, categoryFilter being '' or
\* AND h.category_id = '${categoryId}': the habits the query text selects (AND
\* binds before OR; a NULL category_id equals no literal)
ReportScope(u, categoryId) ==
    {h \in DOMAIN habits :
        IF ~categoryId.given THEN habits[h].owner = u
        ELSE \/ (habits[h].owner = u /\ habits[h].category = categoryId.literal)
             \/ categoryId.orTrue}

\* hl.date BETWEEN $2 AND $3, with $2 = startDate and $3 = adjustedEndDate (the
\* end of the local day of endDate).  The driver sends a Date as local time;
\* read as a timestamp, the UTC midnight of startDate is past the midnight that
\* the logs of that day carry when the server's zone is ahead of UTC.
ReportInRange(d, startDate, endDate) ==
    IF ServerAheadOfUtc THEN startDate < d /\ d <= endDate
    ELSE startDate <= d /\ d <= endDate

\* COUNT(hl.log_id) AS completion_count
CompletionCount(h, startDate, endDate) ==
    SumOver([d \in Days |-> IF ReportInRange(d, startDate, endDate) THEN logs[h][d].rows ELSE 0], Days)

\* COALESCE(SUM(hl.completed_count), 0) AS total_completions
TotalCompletionsAsRows(h, startDate, endDate) == CompletionCount(h, startDate, endDate)
TotalCompletions(h, startDate, endDate) ==
    SumOver([d \in Days |-> IF ReportInRange(d, startDate, endDate) THEN logs[h][d].total ELSE 0], Days)

\* AGE(LEAST(CURRENT_DATE, COALESCE(h.end_date, CURRENT_DATE)), GREATEST(h.start_date, $2)):
\* no habit has an end date, and $2 is not before the habit's start
ReportAge(today, startDate) ==
    IF ~ServerAheadOfUtc THEN Age(today, startDate)
    ELSE IF today > startDate THEN Age(today - 1, startDate)
    ELSE IF today = startDate THEN [months |-> 0, days |-> 0]
    ELSE [months |-> 0 - Age(startDate, today).months, days |-> 0 - Age(startDate, today).days]

\* CASE WHEN h.frequency = 'daily' .. WHEN 'weekly' .. ELSE .. END AS completion_rate
CompletionRate(h, startDate, endDate, today) ==
    LET total == TotalCompletions(h, startDate, endDate)
        age == ReportAge(today, startDate)
        target == habits[h].target
    IN  CASE habits[h].frequency = "daily" ->
                [num |-> total, den |-> Max2(1, age.days) * target]
          [] habits[h].frequency = "weekly" ->
                IF age.days <= DaysPerWeek THEN [num |-> total, den |-> target]
                ELSE [num |-> total * DaysPerWeek, den |-> age.days * target]
          [] OTHER ->
                [num |-> total, den |-> Max2(1, age.months) * target]

\* INTERVAL '7 days', INTERVAL '14 days'
TrendDays == 7

\* SELECT COUNT(*) FROM habit_logs WHERE habit_id = h.habit_id AND date BETWEEN lo AND hi
LogsBetween(h, lo, hi) ==
    SumOver([d \in Days |-> IF lo <= d /\ d <= hi THEN logs[h][d].rows ELSE 0], Days)

\* (.. BETWEEN CURRENT_DATE - INTERVAL '7 days' AND CURRENT_DATE)
\*  - (.. BETWEEN CURRENT_DATE - INTERVAL '14 days' AND CURRENT_DATE - INTERVAL '7 days')
RecentTrend(h, today) ==
    LogsBetween(h, today - TrendDays, today)
        - LogsBetween(h, today - 2 * TrendDays, today - TrendDays)

\* one row of habitResults.rows
ReportRow(h, startDate, endDate, today) ==
    [habit_id |-> h,
     habit_name |-> habits[h].name,
     completion_count |-> CompletionCount(h, startDate, endDate),
     total_completions |-> TotalCompletions(h, startDate, endDate),
     current_streak |-> IF h \in DOMAIN streaks THEN streaks[h].current ELSE 0,
     longest_streak |-> IF h \in DOMAIN streaks THEN streaks[h].longest ELSE 0,
     completion_rate |-> CompletionRate(h, startDate, endDate, today),
     recent_trend |-> RecentTrend(h, today)]

\* h.name ASC, on the names in use
NameRankDesc(name) == IF name = "A" THEN 2 ELSE 1
NameRank(name) == IF name = "A" THEN 1 ELSE 2

\* ORDER BY completion_rate DESC, h.name ASC: row a may stand before row b
InOrder(a, b) ==
    \/ a.completion_rate.num * b.completion_rate.den > b.completion_rate.num * a.completion_rate.den
    \/ /\ a.completion_rate.num * b.completion_rate.den = b.completion_rate.num * a.completion_rate.den
       /\ NameRank(a.habit_name) <= NameRank(b.habit_name)

\* the orders in which the query may return the rows of the habits S
HabitsQueryRows(S, startDate, endDate, today) ==
    {rows \in [1..Cardinality(S) -> {ReportRow(h, startDate, endDate, today) : h \in S}] :
        /\ \A i, j \in 1..Cardinality(S) : i # j => rows[i].habit_id # rows[j].habit_id
        /\ \A i, j \in 1..Cardinality(S) : i < j => InOrder(rows[i], rows[j])}

\* FROM habits h LEFT JOIN habit_logs hl ON .. AND hl.date BETWEEN $2 AND $3: the
\* number of joined rows of a habit
JoinedRows(h, startDate, endDate) == Max2(1, CompletionCount(h, startDate, endDate))

\* COALESCE(AVG(hs.current_streak), 0) over the joined rows; AVG skips the rows
\* of a habit without a streaks row (NULL)
AvgCurrentStreak(scope, startDate, endDate) ==
    LET S == scope \cap DOMAIN streaks
        num == SumOver([h \in S |-> JoinedRows(h, startDate, endDate) * streaks[h].current], S)
        den == SumOver([h \in S |-> JoinedRows(h, startDate, endDate)], S)
    IN  IF S = {} THEN NoScore ELSE [num |-> num, den |-> den]

\* summaryResults.rows[0]
SummaryRow(scope, startDate, endDate) ==
    [total_habits |-> Cardinality(scope),
     avg_current_streak |-> AvgCurrentStreak(scope, startDate, endDate),
     max_streak |-> IF scope \cap DOMAIN streaks = {} THEN 0
                    ELSE SetMax({streaks[h].longest : h \in scope \cap DOMAIN streaks})]

\* await Promise.all(promises): rejects with the first rejection, resolves when
\* every updateStreak has resolved; catch (error) { throw error }
BatchJoin ==
    /\ batch.pc = "running"
    /\ ~LocalStepPending
    /\ IF \E h \in HabitIds : ut[h].pc = "failed"
       THEN batch' = [batch EXCEPT !.pc = "done", !.result = "threw"]
       ELSE /\ \A h \in HabitIds : UtTerminal(h)
            /\ batch' = [batch EXCEPT !.pc = IF batch.mode = "report" THEN "habitsQuery" ELSE "done",
                                      !.result = "ok",
                                      !.atRecalcEnd = LogsOfUser(batch.user)]
    /\ UNCHANGED <<habits, logs, streaks, lc, ut, pool>>

\* const habitResults = await client.query(habitsQuery, ...)
BatchHabitsQuery ==
    /\ batch.pc = "habitsQuery"
    /\ ~LocalStepPending
    /\ \E rows \in HabitsQueryRows(ReportScope(batch.user, batch.categoryId),
                                    batch.startDate, batch.endDate, batch.today) :
            batch' = [batch EXCEPT !.pc = "summaryQuery", !.atHabitsQuery = LogsOfUser(batch.user),
                                   !.rows = rows]
    /\ UNCHANGED <<habits, logs, streaks, lc, ut, pool>>

\* const summaryResults = await client.query(summaryQuery, ...); return { habits, summary }
BatchSummaryQuery ==
    /\ batch.pc = "summaryQuery"
    /\ ~LocalStepPending
    /\ batch' = [batch EXCEPT !.pc = "done", !.atSummaryQuery = LogsOfUser(batch.user),
                              !.summary = SummaryRow(ReportScope(batch.user, batch.categoryId),
                                                     batch.startDate, batch.endDate)]
    /\ UNCHANGED <<habits, logs, streaks, lc, ut, pool>>

\* a statement of the batch itself is rejected by the data store: rethrown
BatchFail ==
    /\ batch.pc \in {"selHabits", "habitsQuery", "summaryQuery"}
    /\ batch.pc # "selHabits" => ~LocalStepPending
    /\ batch' = [batch EXCEPT !.pc = "done", !.result = "threw"]
    /\ UNCHANGED <<habits, logs, streaks, lc, ut, pool>>

\* the call has returned or thrown and every updateStreak it started has settled
BatchFinish ==
    /\ batch.pc = "done"
    /\ \A h \in HabitIds : UtTerminal(h)
    /\ batch' = BatchIdle
    /\ ut' = [h \in HabitIds |-> UtIdle]
    /\ UNCHANGED <<habits, logs, streaks, lc, pool>>

\* ------------------------------- recalculateStreaks calls on the pool

\* pool.connect() with no free client waits until one is released (no
\* connectionTimeoutMillis is configured)
ClientFree == pool.free > 0

\* the calls of caller k that hold a client
RcHolds(k) == pool.rc[k].pc \in {"selHabits", "join"}
UsPc(k, h) == IF h \in DOMAIN pool.rc[k].us THEN pool.rc[k].us[h].pc ELSE "idle"
UsHolds(k, h) == UsPc(k, h) \in {"readLogs", "readStreak", "write"}

\* recalculateStreaks(userId) is called: const client = await pool.connect()
RcStart(k) ==
    /\ pool.rc[k].pc = "idle"
    /\ pool' = [pool EXCEPT !.rc[k].pc = "connect"]
    /\ UNCHANGED <<habits, logs, streaks, lc, ut, batch>>

\* the pool hands the call a client
RcConnect(k) ==
    /\ pool.rc[k].pc = "connect"
    /\ ClientFree
    /\ pool' = [pool EXCEPT !.free = @ - 1, !.rc[k].pc = "selHabits"]
    /\ UNCHANGED <<habits, logs, streaks, lc, ut, batch>>

\* SELECT habit_id FROM habits WHERE user_id = $1; rows.map(habit =>
\* updateStreak(habit.habit_id)): every updateStreak calls pool.connect()
RcSelHabits(k, u) ==
    /\ pool.rc[k].pc = "selHabits"
    /\ pool' = [pool EXCEPT !.rc[k].pc = "join",
                            !.rc[k].us = [h \in HabitsOf(u) |-> [UtIdle EXCEPT !.pc = "connect"]]]
    /\ UNCHANGED <<habits, logs, streaks, lc, ut, batch>>

\* updateStreak: const client = await pool.connect() is served
UsConnect(k, h) ==
    /\ UsPc(k, h) = "connect"
    /\ ClientFree
    /\ pool' = [pool EXCEPT !.free = @ - 1, !.rc[k].us[h].pc = "readLogs"]
    /\ UNCHANGED <<habits, logs, streaks, lc, ut, batch>>

\* updateStreak: SELECT date FROM habit_logs ..; no rows: return, and
\* finally { client.release() }
UsReadLogs(k, h) ==
    /\ UsPc(k, h) = "readLogs"
    /\ LET rows == LogDates(logs, h)
       IN  IF UtNoLogs(rows)
           THEN pool' = [pool EXCEPT !.free = @ + 1, !.rc[k].us[h].pc = "done"]
           ELSE pool' = [pool EXCEPT !.rc[k].us[h].pc = "readStreak",
                                     !.rc[k].us[h].last = UsLastDate(rows),
                                     !.rc[k].us[h].cur = UsCurrentStreak(rows)]
    /\ UNCHANGED <<habits, logs, streaks, lc, ut, batch>>

\* updateStreak: SELECT * FROM streaks WHERE habit_id = $1
UsReadStreak(k, h) ==
    /\ UsPc(k, h) = "readStreak"
    /\ LET found == h \in DOMAIN streaks
           existingLongest == IF found THEN streaks[h].longest ELSE 0
       IN  pool' = [pool EXCEPT !.rc[k].us[h].pc = "write", !.rc[k].us[h].found = found,
                                !.rc[k].us[h].longest =
                                    UsLongestStreak(pool.rc[k].us[h].cur, existingLongest)]
    /\ UNCHANGED <<habits, logs, streaks, lc, ut, batch>>

\* updateStreak: INSERT INTO streaks or UPDATE streaks; return or throw, and
\* finally { client.release() }
UsWrite(k, h) ==
    /\ UsPc(k, h) = "write"
    /\ LET kind == IF pool.rc[k].us[h].found THEN "update" ELSE "insert"
           me == pool.rc[k].us[h]
       IN  IF kind = "insert" /\ h \in DOMAIN streaks
           THEN /\ pool' = [pool EXCEPT !.free = @ + 1, !.rc[k].us[h].pc = "failed",
                                        !.rc[k].us[h].err = "duplicate"]
                /\ UNCHANGED streaks
           ELSE /\ pool' = [pool EXCEPT !.free = @ + 1, !.rc[k].us[h].pc = "done",
                                        !.rc[k].us[h].returned = TRUE]
                /\ streaks' = (IF StreakWriteLands(kind, h)
                               THEN PutStreak(streaks, h, StreakRow(me.cur, me.longest, me.last))
                               ELSE streaks)
    /\ UNCHANGED <<habits, logs, lc, ut, batch>>

\* await Promise.all(promises) has settled; finally { client.release() }
RcJoin(k) ==
    /\ pool.rc[k].pc = "join"
    /\ \A h \in HabitIds : UsPc(k, h) \in {"idle", "done", "failed"}
    /\ pool' = [pool EXCEPT !.free = @ + 1, !.rc[k] = RcIdle]
    /\ UNCHANGED <<habits, logs, streaks, lc, ut, batch>>

\* ------------------------------------------------ the consistency score

\* v_total_days := EXTRACT(DAY FROM AGE(p_end_date, p_start_date)) + 1
TotalDays(startDate, endDate) == Age(endDate, startDate).days + 1

\* v_expected_completions, by v_habit_frequency
ExpectedCompletions(frequency, totalDays) ==
    CASE frequency = "daily" -> totalDays
      [] frequency = "weekly" -> CeilDiv(totalDays, DaysPerWeek)
      [] frequency = "monthly" -> CeilDiv(totalDays, DaysPerMonth)
      [] OTHER -> totalDays

\* SELECT COUNT(*) FROM habit_logs WHERE habit_id = .. AND date BETWEEN p_start_date AND p_end_date
CompletedDays(h, startDate, endDate) ==
    SumOver([d \in Days |-> IF startDate <= d /\ d <= endDate THEN logs[h][d].rows ELSE 0], Days)

\* LEAST(100, v_consistency_score), the score kept as the fraction num / den
ScoreUncapped(num, den) == [num |-> num, den |-> den]
Least100(num, den) == IF num >= 100 * den THEN [num |-> 100, den |-> 1] ELSE [num |-> num, den |-> den]

\* calculate_consistency_score(p_habit_id, p_start_date, p_end_date)
CalculateConsistencyScore(h, startDate, endDate) ==
    LET frequency == IF h \in DOMAIN habits THEN habits[h].frequency ELSE "null"
        expected == ExpectedCompletions(frequency, TotalDays(startDate, endDate))
        completed == CompletedDays(h, startDate, endDate)
    IN  IF expected > 0 THEN Least100(completed * 100, expected) ELSE Least100(0, 1)

\* GET /consistency/:habitId: getHabitConsistency finds the user's habit (404
\* otherwise) and answers getConsistencyScore(habitId, startDate, endDate)
ScoreQuery(u, h, startDate, endDate) ==
    /\ Quiescent
    /\ batch' = [BatchIdle EXCEPT !.pc = "done", !.mode = "score", !.user = u, !.habit = h,
                                  !.startDate = startDate, !.endDate = endDate,
                                  !.result = IF h \in HabitsOf(u) THEN "ok" ELSE "notFound",
                                  !.score = IF h \in HabitsOf(u)
                                            THEN CalculateConsistencyScore(h, startDate, endDate)
                                            ELSE NoScore]
    /\ UNCHANGED <<habits, logs, streaks, lc, ut, pool>>

\* ---------------------------------------------------------- specifications

Crud ==
    \/ \E u \in Users, h \in HabitIds : CreateHabit(u, h, IF h = "h1" THEN "A" ELSE "B", "daily", 1)
    \/ \E u \in Users, h \in HabitIds : DeleteHabit(u, h)

\* the statements of logCompletion
LcSteps ==
    \/ \E c \in Clients : LcLookup(c)
    \/ \E c \in Clients : LcInsert(c)
    \/ \E c \in Clients : LcReadLogs(c)
    \/ \E c \in Clients : LcReadStreak(c)
    \/ \E c \in Clients : LcWrite(c)
    \/ \E c \in Clients : LcCommit(c)
    \/ \E c \in Clients : LcReadback(c)
    \/ \E c \in Clients : LcFinish(c)

Steps ==
    \/ LcSteps
    \/ \E c \in Clients : LcFail(c)
    \/ \E h \in HabitIds : UtReadLogs(h)
    \/ \E h \in HabitIds : UtReadStreak(h)
    \/ \E h \in HabitIds : UtWrite(h)
    \/ \E h \in HabitIds : UtFail(h)
    \/ BatchSelHabits
    \/ BatchJoin
    \/ BatchHabitsQuery
    \/ BatchSummaryQuery
    \/ BatchFail
    \/ BatchFinish

\* requests served one after another: every operation of the server and of
\* the fixStreaks utility
Starts ==
    \/ \E u \in Users, h \in HabitIds, d \in Days : StartLog("c1", u, h, d, CountOf(1), MaxLogs, TRUE)
    \/ \E h \in HabitIds : StartUpdate(h)
    \/ \E u \in Users, mode \in {"recalc", "report"} : StartRecalc(u, mode, 1, MaxDay, MaxDay, TRUE)

Next == Crud \/ Starts \/ Steps
Spec == Init /\ [][Next]_vars

\* requests interleaved statement by statement, on the data set of one user
\* who has created one habit
InitConc ==
    /\ habits = [h \in {"h1"} |-> HabitRow("u1", "A", "daily", 1)]
    /\ logs = NoLogs
    /\ streaks = <<>>
    /\ lc = [c \in Clients |-> LcIdle]
    /\ ut = [h \in HabitIds |-> UtIdle]
    /\ batch = BatchIdle
    /\ pool = PoolIdle

\* the requests the server takes while others are in flight: POST /:id/log and
\* GET /report of the signed-in user
StartsConc ==
    \/ \E c \in Clients, h \in HabitIds, d \in 1..MaxConcDay :
            StartLog(c, "u1", h, d, CountOf(1), MaxConcLogs, FALSE)
    \/ StartRecalc("u1", "report", 1, MaxDay, MaxDay, FALSE)

NextConc == StartsConc \/ Steps
SpecConc == InitConc /\ [][NextConc]_vars

\* consistency-score requests on one habit of any frequency, its completions
\* logged one request after another
InitScore ==
    /\ \E f \in Frequencies : habits = [h \in {"h1"} |-> HabitRow("u1", "A", f, 1)]
    /\ logs = NoLogs
    /\ streaks = <<>>
    /\ lc = [c \in Clients |-> LcIdle]
    /\ ut = [h \in HabitIds |-> UtIdle]
    /\ batch = BatchIdle
    /\ pool = PoolIdle

NextScore ==
    \/ \E d \in Days : StartLog("c1", "u1", "h1", d, CountOf(1), MaxLogs, TRUE)
    \/ LcSteps
    \/ \E startDate \in Days, endDate \in 1..MaxScoreDay : ScoreQuery("u1", "h1", startDate, endDate)
    \/ BatchFinish

SpecScore == InitScore /\ [][NextScore]_vars

\* report requests of a user with two habits, the completions logged one
\* request after another with any count a request body can carry
RequestCounts == {NoCount, CountOf(0 - 1), CountOf(0), CountOf(1), CountOf(2)}

InitReport ==
    /\ \E name \in HabitNames, target \in TargetCounts :
            habits = [h \in HabitIds |-> IF h = "h1" THEN HabitRow("u1", name, "daily", 1)
                                         ELSE HabitRow("u1", "A", "daily", target)]
    /\ logs = NoLogs
    /\ streaks = <<>>
    /\ lc = [c \in Clients |-> LcIdle]
    /\ ut = [h \in HabitIds |-> UtIdle]
    /\ batch = BatchIdle
    /\ pool = PoolIdle

NextReport ==
    \/ \E h \in HabitIds, d \in 2..(MaxDay - 1), count \in RequestCounts :
            StartLog("c1", "u1", h, d, count, MaxReportLogs, TRUE)
    \/ LcSteps
    \/ \E startDate \in 1..2 : StartRecalc("u1", "report", startDate, MaxDay, MaxDay, TRUE)
    \/ BatchSelHabits
    \/ \E h \in HabitIds : UtReadLogs(h)
    \/ \E h \in HabitIds : UtReadStreak(h)
    \/ \E h \in HabitIds : UtWrite(h)
    \/ BatchJoin
    \/ BatchHabitsQuery
    \/ BatchSummaryQuery
    \/ BatchFinish

SpecReport == InitReport /\ [][NextReport]_vars

\* report requests on one daily habit, on any day up to MaxToday, its
\* completions logged one request after another
InitTrend ==
    /\ \E target \in TargetCounts : habits = [h \in {"h1"} |-> HabitRow("u1", "A", "daily", target)]
    /\ logs = NoLogs
    /\ streaks = <<>>
    /\ lc = [c \in Clients |-> LcIdle]
    /\ ut = [h \in HabitIds |-> UtIdle]
    /\ batch = BatchIdle
    /\ pool = PoolIdle

NextTrend ==
    \/ \E d \in Days : StartLog("c1", "u1", "h1", d, CountOf(1), MaxReportLogs, TRUE)
    \/ LcSteps
    \/ \E startDate \in 1..2, endDate \in {MaxDay - 1, MaxDay}, today \in MaxDay..MaxToday :
            StartRecalc("u1", "report", startDate, endDate, today, TRUE)
    \/ BatchSelHabits
    \/ \E h \in HabitIds : UtReadLogs(h)
    \/ \E h \in HabitIds : UtReadStreak(h)
    \/ \E h \in HabitIds : UtWrite(h)
    \/ BatchJoin
    \/ BatchHabitsQuery
    \/ BatchSummaryQuery
    \/ BatchFinish

SpecTrend == InitTrend /\ [][NextTrend]_vars

\* logCompletion requests interleaved statement by statement, the start time of
\* every transaction followed: each BEGIN is later than every BEGIN before it
NextStamp ==
    1 + SetMax({lc[c].stamp : c \in Clients} \cup {LatestCreated(logs, h) : h \in HabitIds})

NextReadback ==
    \/ \E c \in Clients, d \in Days :
            StartLogAt(c, "u1", "h1", d, CountOf(1), MaxConcLogs, FALSE, NextStamp)
    \/ LcSteps

SpecReadback == InitConc /\ [][NextReadback]_vars

\* recalculateStreaks calls of one user in flight together, as many as the pool
\* has clients; the user has two habits, one of them logged once
InitPool ==
    /\ habits = [h \in HabitIds |-> HabitRow("u1", IF h = "h1" THEN "A" ELSE "B", "daily", 1)]
    /\ logs = AddLog(NoLogs, "h1", 1, 1, 0)
    /\ streaks = [h \in {"h1"} |-> StreakRow(1, 1, 1)]
    /\ lc = [c \in Clients |-> LcIdle]
    /\ ut = [h \in HabitIds |-> UtIdle]
    /\ batch = BatchIdle
    /\ pool = PoolIdle

NextPool ==
    \/ \E k \in Callers : RcStart(k)
    \/ \E k \in Callers : RcConnect(k)
    \/ \E k \in Callers : RcSelHabits(k, "u1")
    \/ \E k \in Callers, h \in HabitIds : UsConnect(k, h)
    \/ \E k \in Callers, h \in HabitIds : UsReadLogs(k, h)
    \/ \E k \in Callers, h \in HabitIds : UsReadStreak(k, h)
    \/ \E k \in Callers, h \in HabitIds : UsWrite(k, h)
    \/ \E k \in Callers : RcJoin(k)

SpecPool == InitPool /\ [][NextPool]_vars

\* report requests of user u1 with any categoryId, on the data of two users
\* with one habit each, the completions logged one request after another
InitInject ==
    /\ habits = [h \in HabitIds |->
                    IF h = "h1" THEN [HabitRow("u1", "A", "daily", 1) EXCEPT !.category = "cat1"]
                    ELSE HabitRow("u2", "B", "daily", 1)]
    /\ logs = NoLogs
    /\ streaks = <<>>
    /\ lc = [c \in Clients |-> LcIdle]
    /\ ut = [h \in HabitIds |-> UtIdle]
    /\ batch = BatchIdle
    /\ pool = PoolIdle

NextInject ==
    \/ \E u \in Users, h \in HabitIds, d \in 2..(MaxDay - 1) :
            StartLog("c1", u, h, d, CountOf(1), MaxReportLogs, TRUE)
    \/ LcSteps
    \/ \E categoryId \in CategoryIds :
            StartRecalcWith("u1", "report", 1, MaxDay, MaxDay, TRUE, categoryId)
    \/ BatchSelHabits
    \/ \E h \in HabitIds : UtReadLogs(h)
    \/ \E h \in HabitIds : UtReadStreak(h)
    \/ \E h \in HabitIds : UtWrite(h)
    \/ BatchJoin
    \/ BatchHabitsQuery
    \/ BatchSummaryQuery
    \/ BatchFinish

SpecInject == InitInject /\ [][NextInject]_vars

\* ------------------------------------------------------------ properties

\* the consecutive logged days that end at day m, counted day by day
RunEndingAt(dates, m) ==
    Cardinality({k \in 0..MaxDay : \A j \in 0..k : (m - j) \in dates})

\* the longest run of consecutive logged days anywhere in the set
LongestRun(dates) ==
    IF dates = {} THEN 0 ELSE SetMax({RunEndingAt(dates, m) : m \in dates})

\* C1: the completion log and the streak write of one logCompletion become
\* visible together.  In every state (what a concurrent reader can see): the
\* committed tables hold the log of a request exactly when they hold its
\* streak write, a habit with a committed log has a Streak row, and the last
\* logged date of a Streak row is the date of a committed log.
C1_LogAndStreakVisibleTogether ==
    /\ \A c \in Clients : lc[c].logVisible = lc[c].streakVisible
    /\ \A h \in HabitIds :
        /\ LogDates(logs, h) # {} => h \in DOMAIN streaks
        /\ h \in DOMAIN streaks => streaks[h].last \in LogDates(logs, h)

\* a request has committed both writes while the report is between its two reads
\* and the other request holds an uncommitted log
C1_Witness ==
    /\ lc["c1"].pc = "readback" /\ lc["c1"].logVisible /\ lc["c1"].streakVisible
    /\ lc["c2"].txLog
    /\ batch.pc = "summaryQuery"

\* C2: a logCompletion that failed between BEGIN and COMMIT (or found no habit)
\* leaves habit_logs and streaks exactly as they were before the call.
C2_FailureRollsBack ==
    \A c \in Clients :
        (lc[c].pc = "done" /\ lc[c].status \in {400, 404} /\ lc[c].err # "afterCommit")
            => (logs = lc[c].preLogs /\ streaks = lc[c].preStreaks)

\* a request on a habit that already has logs and a Streak row has failed inside
\* the transaction
C2_Witness ==
    /\ lc["c1"].pc = "done" /\ lc["c1"].status = 400 /\ lc["c1"].err = "inTx"
    /\ lc["c1"].preLogs # NoLogs /\ lc["c1"].preStreaks # <<>>

\* C3: once logCompletion or updateStreak has completed (requests served in
\* turn), the persisted current_streak of a habit is the number of consecutive
\* logged days ending at its most recent logged day, and no Streak row of a
\* habit without logs holds a current streak other than 0.
C3_CurrentStreakIsTrailingRun ==
    \A h \in DOMAIN streaks :
        LET dates == LogDates(logs, h)
        IN  IF dates = {} THEN streaks[h].current = 0
            ELSE streaks[h].current = RunEndingAt(dates, SetMax(dates))

\* logs on days 1, 3 and 4: the run that ends at the last logged day has length 2
C3_Witness ==
    /\ Quiescent
    /\ "h1" \in DOMAIN streaks
    /\ LogDates(logs, "h1") = {1, 3, 4}
    /\ streaks["h1"].current = 2

\* C4: after logCompletion or updateStreak the persisted longest_streak is
\* max(L, stored longest) with L the longest run of consecutive logged days
\* anywhere in the habit's history; so, with every request completed, it is
\* never below L.
C4_LongestCoversWholeHistory ==
    Quiescent =>
        \A h \in DOMAIN streaks : streaks[h].longest >= LongestRun(LogDates(logs, h))

\* C5: with the operations executed one after another, the longest_streak of a
\* habit's Streak row never decreases from one state to the next.
C5_LongestNeverDecreases ==
    [][\A h \in DOMAIN streaks \cap DOMAIN streaks' :
            streaks'[h].longest >= streaks[h].longest]_vars

\* a finished run of 2 days is kept as longest while the current run is 1
C5_Witness ==
    /\ Quiescent
    /\ "h1" \in DOMAIN streaks
    /\ streaks["h1"].longest = 2 /\ streaks["h1"].current = 1
    /\ streaks["h1"].last = 4

\* C6: every persisted Streak row has 0 <= current_streak <= longest_streak.
C6_CurrentWithinLongest ==
    \A h \in DOMAIN streaks :
        0 <= streaks[h].current /\ streaks[h].current <= streaks[h].longest

\* a logCompletion has just committed a row whose current run of 3 days is
\* also the longest
C6_Witness ==
    /\ lc["c1"].pc = "readback"
    /\ "h1" \in DOMAIN streaks /\ streaks["h1"].current = 3 /\ streaks["h1"].longest = 3

\* C7: updateStreak on a habit whose Streak row was written by updateStreak or
\* logCompletion, no log added since, leaves the row as it is and returns the
\* values of the row.
C7_UpdateStreakIdempotent ==
    [][\A h \in HabitIds :
            (ut[h].pc = "write" /\ ut'[h].pc = "done" /\ h \in DOMAIN streaks)
                => /\ streaks' = streaks
                   /\ StreakRow(ut'[h].cur, ut'[h].longest, ut'[h].last) = streaks[h]]_vars

\* updateStreak has rewritten a row whose longest run is not the current one
C7_Witness ==
    /\ ut["h1"].pc = "done" /\ ut["h1"].returned /\ ut["h1"].found
    /\ "h1" \in DOMAIN streaks
    /\ streaks["h1"] = StreakRow(ut["h1"].cur, ut["h1"].longest, ut["h1"].last)
    /\ streaks["h1"].current = 1 /\ streaks["h1"].longest = 2

\* C8: when the updateStreak of one habit throws inside recalculateStreaks, the
\* batch itself does not fail: it completes only after the other habits'
\* updateStreak calls have settled, and it does not throw.
C8_BatchSurvivesHabitFailure ==
    (batch.mode = "recalc" /\ batch.pc = "done" /\ \E h \in HabitIds : ut[h].pc = "failed")
        => /\ batch.result = "ok"
           /\ \A h \in HabitsOf(batch.user) : UtTerminal(h)

\* C9: within one generateHabitReport no completion log of the user's habits is
\* committed between the end of the recalculation pass and the two aggregation
\* reads: both reads see the habit_logs rows the pass ended on.
C9_NoCommitBetweenRecalcAndReads ==
    /\ (batch.mode = "report" /\ batch.pc = "summaryQuery")
            => batch.atHabitsQuery = batch.atRecalcEnd
    /\ (batch.mode = "report" /\ batch.pc = "done" /\ batch.result = "ok")
            => batch.atSummaryQuery = batch.atRecalcEnd

\* C10: the streak write is an atomic insert-or-update keyed by habit id: no
\* call's write is aborted by a duplicate insert.
C10_NoDuplicateInsertAbort ==
    /\ \A c \in Clients : lc[c].err # "duplicate"
    /\ \A h \in HabitIds : ut[h].err # "duplicate"

\* C16: a logCompletion for a habit that does not exist or belongs to another
\* user ends at the lookup with a not-found result (or the error of a rejected
\* statement) and leaves habit_logs and streaks as they are.
C16_ForeignHabitNotFound ==
    [][\A c \in Clients :
            (/\ lc[c].pc = "lookup"
             /\ ~(lc[c].habit \in DOMAIN habits /\ habits[lc[c].habit].owner = lc[c].user)
             /\ lc'[c] # lc[c])
                => /\ lc'[c].pc = "done"
                   /\ lc'[c].status = 404 \/ lc'[c].err = "inTx"
                   /\ logs' = logs /\ streaks' = streaks
                   /\ logs' = lc[c].preLogs /\ streaks' = lc[c].preStreaks]_vars

\* every habit id exists, so the request that was answered 404 named a habit
\* of another user; logs and a Streak row are in the tables
C16_Witness ==
    /\ lc["c1"].pc = "done" /\ lc["c1"].status = 404
    /\ DOMAIN habits = HabitIds
    /\ logs # NoLogs /\ streaks # <<>>

\* C19: when the recalculation of a habit fails in the pass that precedes the
\* report, generateHabitReport still returns a report.
C19_ReportSurvivesRecalcFailure ==
    (batch.mode = "report" /\ batch.pc = "done" /\ \E h \in HabitIds : ut[h].pc = "failed")
        => batch.result = "ok"

\* C20: updateStreak for a habit without completion logs returns at once,
\* returns no value and writes nothing to streaks.
C20_NoLogsNoWrite ==
    [][\A h \in HabitIds :
            (ut[h].pc = "readLogs" /\ LogDates(logs, h) = {} /\ ut'[h] # ut[h])
                => /\ ut'[h].pc \in {"done", "failed"}
                   /\ ~ut'[h].returned
                   /\ streaks' = streaks]_vars

\* updateStreak has returned for an existing habit that has no logs and no row
C20_Witness ==
    /\ batch.mode = "update"
    /\ ut["h1"].pc = "done" /\ ~ut["h1"].returned
    /\ "h1" \in DOMAIN habits /\ LogDates(logs, "h1") = {}
    /\ "h1" \notin DOMAIN streaks
    /\ logs # NoLogs

\* the score a consistency request is to return: min(100, actual / expected * 100)
\* over the inclusive day count of the range, as the fraction num / den
InclusiveDays(startDate, endDate) == endDate - startDate + 1

Periods(n, len) == CHOOSE k \in 0..n : k * len >= n /\ (k - 1) * len < n

ExpectedByFrequency(frequency, n) ==
    IF frequency = "weekly" THEN Periods(n, 7)
    ELSE IF frequency = "monthly" THEN Periods(n, 30)
    ELSE n

DistinctLoggedDays(h, startDate, endDate) ==
    Cardinality({d \in Days : startDate <= d /\ d <= endDate /\ logs[h][d].rows > 0})

IsMinOf100And(score, actual, expected) ==
    IF actual >= expected
    THEN score.num = 100 * score.den
    ELSE score.num * expected = 100 * actual * score.den

\* an answered consistency-score request
ScoreAnswered == batch.mode = "score" /\ batch.pc = "done" /\ batch.result = "ok"

\* C12: for every frequency, date range (also one that ends before it starts)
\* and log history (also more logs than expected completions) the consistency
\* score lies in [0, 100].
C12_ScoreWithin0And100 ==
    ScoreAnswered =>
        /\ batch.score.den > 0
        /\ 0 <= batch.score.num
        /\ batch.score.num <= 100 * batch.score.den

\* a daily habit logged twice on the only day of the range: 200 percent, capped
C12_Witness ==
    /\ ScoreAnswered
    /\ habits["h1"].frequency = "daily"
    /\ batch.startDate = batch.endDate
    /\ logs["h1"][batch.startDate].rows = 2
    /\ batch.score = [num |-> 100, den |-> 1]

\* C13: for startDate <= endDate the score is min(100, actual / expected * 100)
\* with expected taken from the inclusive day count endDate - startDate + 1,
\* also for ranges longer than a month (stated for histories with at most one
\* log per date, where the number of logs is the number of logged dates).
C13_ScoreUsesInclusiveDayCount ==
    (/\ ScoreAnswered
     /\ batch.startDate <= batch.endDate
     /\ \A d \in Days : logs[batch.habit][d].rows <= 1)
        => IsMinOf100And(batch.score,
                         DistinctLoggedDays(batch.habit, batch.startDate, batch.endDate),
                         ExpectedByFrequency(habits[batch.habit].frequency,
                                             InclusiveDays(batch.startDate, batch.endDate)))

\* C14: the score counts the distinct logged dates of the range: a second log
\* on a date that has one does not change it (stated for ranges of the first
\* MaxDay days, where the day count of the procedure is the inclusive one).
C14_ScoreCountsDistinctDates ==
    (/\ ScoreAnswered
     /\ batch.startDate <= batch.endDate /\ batch.endDate <= MaxDay)
        => IsMinOf100And(batch.score,
                         DistinctLoggedDays(batch.habit, batch.startDate, batch.endDate),
                         ExpectedByFrequency(habits[batch.habit].frequency,
                                             InclusiveDays(batch.startDate, batch.endDate)))

\* a returned report: the rows of the habits query are in batch.rows
ReportRowsRead ==
    batch.mode = "report" /\ batch.result = "ok" /\ batch.pc \in {"summaryQuery", "done"}

ReportReturned == batch.mode = "report" /\ batch.result = "ok" /\ batch.pc = "done"

\* C11: several logs of one date count as one day of the streak, and the
\* report's total_completions is the sum of the completed_count of all of them
\* (stated for habits whose logged dates all lie inside the report's range).
C11_SameDayLogsOneDayAllCounts ==
    ReportRowsRead =>
        \A i \in DOMAIN batch.rows :
            LET h == batch.rows[i].habit_id
                dates == LogDates(logs, h)
            IN  (dates # {} /\ \A d \in dates : batch.startDate < d /\ d < batch.endDate)
                    => /\ batch.rows[i].total_completions
                            = SumOver([d \in Days |-> logs[h][d].total], Days)
                       /\ batch.rows[i].current_streak = RunEndingAt(dates, SetMax(dates))

\* habit h1 has two logs on day 2, with counts that add up to 3: one day of
\* streak, three completions
C11_Witness ==
    /\ ReportReturned
    /\ batch.startDate = 1
    /\ logs["h1"][2].rows = 2 /\ logs["h1"][2].total = 3
    /\ LogDates(logs, "h1") = {2}
    /\ \E i \in DOMAIN batch.rows :
        /\ batch.rows[i].habit_id = "h1"
        /\ batch.rows[i].total_completions = 3
        /\ batch.rows[i].current_streak = 1

\* C15: a logCompletion whose count is not a positive integer is rejected
\* before any write, so no request reaches its read-back after COMMIT with
\* such a count.
C15_NonPositiveCountRejected ==
    \A c \in Clients :
        lc[c].pc = "readback" => (lc[c].count.given /\ lc[c].count.value >= 1)

\* C17: the habits array of a report is sorted by completion rate descending,
\* rows of equal rate by habit name ascending (A before B), and holds every
\* habit of the user once.
C17_ReportOrderedByRateThenName ==
    ReportRowsRead =>
        /\ {batch.rows[i].habit_id : i \in DOMAIN batch.rows} = HabitsOf(batch.user)
        /\ Len(batch.rows) = Cardinality(HabitsOf(batch.user))
        /\ \A i, j \in DOMAIN batch.rows :
            i < j =>
                LET a == batch.rows[i].completion_rate
                    b == batch.rows[j].completion_rate
                IN  /\ a.num * b.den >= b.num * a.den
                    /\ a.num * b.den = b.num * a.den
                        => ~(batch.rows[i].habit_name = "B" /\ batch.rows[j].habit_name = "A")

\* habit h1 is named B, h2 is named A, both have the same positive rate: the
\* row of h2 comes first
C17_Witness ==
    /\ ReportReturned
    /\ habits["h1"].name = "B" /\ habits["h2"].name = "A"
    /\ Len(batch.rows) = 2
    /\ batch.rows[1].habit_id = "h2" /\ batch.rows[2].habit_id = "h1"
    /\ batch.rows[1].completion_rate.num > 0
    /\ batch.rows[1].completion_rate.num * batch.rows[2].completion_rate.den
            = batch.rows[2].completion_rate.num * batch.rows[1].completion_rate.den

\* C18: the summary's avg_current_streak is the mean of the current streak over
\* all habits of the user, each habit once, a habit without a Streak row as 0.
C18_AvgStreakIsMeanOverHabits ==
    ReportReturned =>
        LET S == HabitsOf(batch.user)
            cur == [h \in S |-> IF h \in DOMAIN streaks THEN streaks[h].current ELSE 0]
        IN  batch.summary.avg_current_streak.num * Cardinality(S)
                = SumOver(cur, S) * batch.summary.avg_current_streak.den

\* C21: with the operations executed one after another, a habit has a Streak
\* row exactly when it has a completion log, the row's last_logged_date is the
\* habit's latest logged date, and a habit that is deleted (or was never
\* created) has neither logs nor a Streak row.
C21_StreakRowIffLogs ==
    Quiescent =>
        \A h \in HabitIds :
            /\ (h \in DOMAIN streaks) = (LogDates(logs, h) # {})
            /\ h \in DOMAIN streaks => streaks[h].last = SetMax(LogDates(logs, h))
            /\ h \notin DOMAIN habits => (LogDates(logs, h) = {} /\ h \notin DOMAIN streaks)

\* habit h1 was logged and then deleted, with its logs and its row; habit h2
\* was logged on day 3 and then on the earlier day 1
C21_Witness ==
    /\ Quiescent
    /\ "h1" \notin DOMAIN habits /\ "h2" \in DOMAIN habits
    /\ LogDates(logs, "h1") = {} /\ "h1" \notin DOMAIN streaks
    /\ LogDates(logs, "h2") = {1, 3}
    /\ "h2" \in DOMAIN streaks /\ streaks["h2"].last = 3

\* the logs of habit h dated in the n calendar days that end with day last
LogsInDaysEnding(h, last, n) ==
    SumOver([d \in Days |-> IF last - n < d /\ d <= last THEN logs[h][d].rows ELSE 0], Days)

\* C22: in every habit row of a report, recent_trend is the number of the
\* habit's logs dated in the 7 calendar days ending today minus the number of
\* its logs dated in the 7 calendar days before those: two disjoint windows of
\* 7 days each.
C22_TrendComparesTwoWeeks ==
    ReportRowsRead =>
        \A i \in DOMAIN batch.rows :
            batch.rows[i].recent_trend
                = LogsInDaysEnding(batch.rows[i].habit_id, batch.today, 7)
                    - LogsInDaysEnding(batch.rows[i].habit_id, batch.today - 7, 7)

\* C23: for a daily habit the report's completion rate is total_completions /
\* (max(1, D) * target_count), D being the whole days that lie between the
\* start of the range and today, also when they span more than a month.
C23_DailyRateOverCalendarDays ==
    ReportRowsRead =>
        \A i \in DOMAIN batch.rows :
            LET h == batch.rows[i].habit_id
                D == IF ServerAheadOfUtc /\ batch.today > batch.startDate
                     THEN batch.today - batch.startDate - 1
                     ELSE batch.today - batch.startDate
            IN  habits[h].frequency = "daily"
                    => batch.rows[i].completion_rate.num * (Max2(1, D) * habits[h].target)
                            = batch.rows[i].total_completions * batch.rows[i].completion_rate.den

\* C24: a consistency-score request whose endDate is earlier than its startDate
\* fails with an InvalidRange error and returns no score.
C24_ReversedRangeRejected ==
    (batch.mode = "score" /\ batch.pc = "done" /\ batch.habit \in HabitsOf(batch.user)
        /\ batch.endDate < batch.startDate)
        => batch.result = "invalidRange"

\* C25: under every interleaving of logCompletion with a concurrent
\* updateStreak on the same habit no committed value is lost: no step lowers
\* the longest_streak of a Streak row, and no step of updateStreak replaces a
\* row's last_logged_date by the date of an earlier log.
C25_NoLostStreakUpdate ==
    [][\A h \in DOMAIN streaks \cap DOMAIN streaks' :
            /\ streaks'[h].longest >= streaks[h].longest
            /\ (ut[h].pc = "write" /\ ut'[h].pc = "done")
                    => streaks'[h].last >= streaks[h].last]_vars

\* C26: the completion record in a successful logCompletion response is the
\* record that request inserted, also when another logCompletion of the same
\* habit commits before the read-back.
C26_ReadbackReturnsOwnRecord ==
    \A c \in Clients :
        (lc[c].pc = "done" /\ lc[c].status = 201) => lc[c].returned = lc[c].stamp

\* C27: whenever logCompletion answers with an error status, habit_logs and
\* streaks are as they were before the request, also when the statement that
\* failed is the read-back that follows COMMIT.
C27_ErrorMeansNothingPersisted ==
    \A c \in Clients :
        (lc[c].pc = "done" /\ lc[c].status \in {400, 404})
            => (logs = lc[c].preLogs /\ streaks = lc[c].preStreaks)

\* every client of the pool is held by a recalculateStreaks call that waits
\* for its updateStreak calls, and each of those waits for a client
PoolStarved ==
    /\ pool.free = 0
    /\ \A k \in Callers, h \in HabitIds : ~UsHolds(k, h)
    /\ \A k \in Callers :
            RcHolds(k) => (pool.rc[k].pc = "join"
                            /\ \E h \in HabitIds : UsPc(k, h) = "connect")

\* C28: with a pool of bounded size, concurrent recalculateStreaks calls never
\* reach a state where every client is held by a call that waits for another
\* client.
C28_PoolNeverStarved == ~PoolStarved

\* C29: when a logCompletion commits a log dated on or after every log of the
\* habit, and the habit's history was empty or its row held the longest run of
\* the history, then the row it commits holds the longest run of consecutive
\* dates of the history with the new log: logged in date order from an empty
\* history, longest_streak is the longest run after every call.
C29_InOrderLoggingKeepsLongest ==
    [][\A c \in Clients :
            LET h == lc[c].habit
                before == LogDates(logs, h)
            IN  (/\ lc[c].pc = "commit" /\ lc'[c].pc = "readback"
                 /\ \A d \in before : d <= lc[c].date
                 /\ IF h \in DOMAIN streaks
                    THEN streaks[h].longest = LongestRun(before)
                    ELSE before = {})
                    => /\ h \in DOMAIN streaks'
                       /\ streaks'[h].longest = LongestRun(LogDates(logs', h))]_vars

\* a log on day 4 has just been committed after the logs of days 1 and 2: the
\* longest run stays 2 while the current one is 1
C29_Witness ==
    /\ lc["c1"].pc = "readback" /\ lc["c1"].habit = "h1" /\ lc["c1"].date = 4
    /\ LogDates(logs, "h1") = {1, 2, 4}
    /\ \A d \in Days : logs["h1"][d].rows <= 1
    /\ "h1" \in DOMAIN streaks /\ streaks["h1"] = StreakRow(1, 2, 4)

\* C30: for every categoryId string, the rows and the summary of a report of
\* user u are computed from the habits of u alone: every row is the row of a
\* habit u owns, and the summary counts no habit of another user, so that the
\* data of other users cannot change the report.
C30_ReportOnlyFromOwnHabits ==
    ReportReturned =>
        /\ \A i \in DOMAIN batch.rows : habits[batch.rows[i].habit_id].owner = batch.user
        /\ batch.summary.total_habits <= Cardinality(HabitsOf(batch.user))

====
